---- MODULE Spec2Model ----
(***************************************************************************)
(* The pike!, pike_res! and pike_opt! macros of src/lib.rs.                *)
(*                                                                         *)
(* A pipeline is a token stream.  The model expands it the way the         *)
(* macro_rules matchers of lib.rs do (token trees, fragment parsers,       *)
(* first-match over the rules of __internal_pike_fun) and then runs the    *)
(* expansion one `let ret = ...` at a time, recording every call a stage   *)
(* makes and every value it returns.                                       *)
(***************************************************************************)
EXTENDS Integers, Sequences, FiniteSets, TLC

\* Longest pipeline (number of `|>` stages) the model enumerates.
MaxStages == 3

----------------------------------------------------------------------------
(* Token trees.  k: "ident" | "lit" | "punct" | "paren" | "brace";          *)
(* s: the spelling; n: the value of a literal; g: the tokens of a group.    *)

Tok(k, s) == [k |-> k, s |-> s, n |-> 0, g |-> <<>>]
Id(s) == Tok("ident", s)
Pn(s) == Tok("punct", s)
Lit(n) == [k |-> "lit", s |-> "", n |-> n, g |-> <<>>]
Paren(ts) == [k |-> "paren", s |-> "", n |-> 0, g |-> ts]
Brace(ts) == [k |-> "brace", s |-> "", n |-> 0, g |-> ts]

Amp == Pn("&")
Comma == Pn(",")
Bang == Pn("!")
ColonColon == Pn("::")
Colon == Pn(":")
Bar == Pn("|")
Gt == Pn(">")
Star == Pn("*")
Plus == Pn("+")
PlusEq == Pn("+=")
Semi == Pn(";")
KwAs == Id("as")

Keywords == {"as"}

\* The accumulator names the expansions bind.
RetTok == Id("ret")
XTok == Id("x")

Drop(ts, k) == SubSeq(ts, k + 1, Len(ts))
Take(ts, k) == SubSeq(ts, 1, k)

IsIdentTok(t) == t.k = "ident"
IsName(t) == t.k = "ident" /\ t.s \notin Keywords

\* Positions of the top-level commas of a token sequence.
CommaPos(ts) == {p \in 1..Len(ts) : ts[p] = Comma}

RECURSIVE SplitComma(_)
\* The pieces between the top-level commas, in order (one more than commas).
SplitComma(ts) ==
    IF CommaPos(ts) = {} THEN <<ts>>
    ELSE LET p == CHOOSE q \in CommaPos(ts) : \A r \in CommaPos(ts) : q <= r
         IN <<Take(ts, p - 1)>> \o SplitComma(Drop(ts, p))

----------------------------------------------------------------------------
(* Fragment parsers: which token sequences a `path`, `ty` or `expr`         *)
(* fragment accepts, for the expression forms pipelines are written with.   *)

\* $x:path  --  ident (:: ident)*
IsPath(ts) ==
    /\ Len(ts) >= 1
    /\ Len(ts) % 2 = 1
    /\ \A p \in 1..Len(ts) :
          IF p % 2 = 1 THEN IsName(ts[p]) ELSE ts[p] = ColonColon

\* $x:ty  --  a type name
IsType(ts) == Len(ts) = 1 /\ IsName(ts[1])

\* The parameter list of a closure: `name` or `name : type`
IsParams(ts) ==
    \/ Len(ts) = 1 /\ IsName(ts[1])
    \/ Len(ts) = 3 /\ IsName(ts[1]) /\ ts[2] = Colon /\ IsType(<<ts[3]>>)

BinOps == {Star, Plus}

RECURSIVE IsExpr(_)
RECURSIVE IsCallArgs(_)
\* $x:expr  --  the whole of ts is one expression
IsExpr(ts) ==
    \/ /\ Len(ts) = 1
       /\ \/ IsName(ts[1])
          \/ ts[1].k = "lit"
          \/ ts[1].k = "brace"
          \/ ts[1].k = "paren" /\ IsExpr(ts[1].g)
    \/ Len(ts) > 1 /\ IsPath(ts)
    \* a closure  |params| body
    \/ /\ Len(ts) >= 4
       /\ ts[1] = Bar
       /\ \E q \in 3..(Len(ts) - 1) :
             /\ ts[q] = Bar
             /\ IsParams(SubSeq(ts, 2, q - 1))
             /\ IsExpr(Drop(ts, q))
    \* a binary operation on two operands
    \/ /\ Len(ts) = 3
       /\ ts[2] \in BinOps
       /\ IsExpr(<<ts[1]>>)
       /\ IsExpr(<<ts[3]>>)
    \* a call  callee(args)  (a trailing comma is allowed in a call)
    \/ /\ Len(ts) >= 2
       /\ ts[Len(ts)].k = "paren"
       /\ ts[1] # Bar
       /\ IsExpr(Take(ts, Len(ts) - 1))
       /\ IsCallArgs(ts[Len(ts)].g)
    \* a macro call  name!(tokens)
    \/ /\ Len(ts) = 3
       /\ IsName(ts[1])
       /\ ts[2] = Bang
       /\ ts[3].k = "paren"

\* $($arg:expr),*  --  expressions separated by commas, none after the last
IsExprList(ts) ==
    \/ ts = <<>>
    \/ \A p \in 1..Len(SplitComma(ts)) : IsExpr(SplitComma(ts)[p])

\* The arguments of a call expression, as the expression parser reads them.
IsCallArgs(ts) ==
    \/ IsExprList(ts)
    \/ /\ Len(ts) >= 2
       /\ ts[Len(ts)] = Comma
       /\ IsExprList(Take(ts, Len(ts) - 1))

ExprList(ts) == IF ts = <<>> THEN <<>> ELSE SplitComma(ts)

----------------------------------------------------------------------------
(* __internal_pike_fun: one stage and the accumulated expression in, the    *)
(* rewritten expression out.  The input is `<stage tokens> , <ret>`.        *)

\* A rewritten stage.  op: "ref" | "cast" | "call" | "macro" | "exprcall";
\* f: the callee's tokens; ty: the cast's type; args: the argument
\* expressions in call order, each a token sequence.
Rewritten(rule, op, f, ty, args) ==
    [rule |-> rule, op |-> op, f |-> f, ty |-> ty, args |-> args]

\* No rule accepts the input: the pipeline does not compile.
NoRule == Rewritten(0, "none", <<>>, "", <<>>)

\* `, $ret:expr` from position p to the end of the input
RetAt(inp, p) == Len(inp) > p /\ inp[p] = Comma /\ IsExpr(Drop(inp, p))

\* $funs_head:tt $(:: $funs_tail:tt)* ( ... )
IsCallShape(g) ==
    /\ Len(g) >= 2
    /\ Len(g) % 2 = 0
    /\ g[Len(g)].k = "paren"
    /\ \A p \in 2..(Len(g) - 1) : (p % 2 = 0) => g[p] = ColonColon

\* (&, $ret:expr)
MatchRef(inp) == Len(inp) >= 1 /\ inp[1] = Amp /\ RetAt(inp, 2)

\* ((as $typ:ty), $ret:expr)
MatchCast(inp) ==
    /\ Len(inp) >= 1
    /\ inp[1].k = "paren"
    /\ Len(inp[1].g) >= 1
    /\ inp[1].g[1] = KwAs
    /\ IsType(Drop(inp[1].g, 1))
    /\ RetAt(inp, 2)

\* (($funs_head:tt $(:: $funs_tail:tt)* ($($arg:expr),*)), $ret:expr)
MatchCall(inp) ==
    /\ Len(inp) >= 1
    /\ inp[1].k = "paren"
    /\ IsCallShape(inp[1].g)
    /\ IsExprList(inp[1].g[Len(inp[1].g)].g)
    /\ RetAt(inp, 2)

\* (($fun:ident!($($arg:expr),*)), $ret:expr)
MatchMacroCall(inp) ==
    /\ Len(inp) >= 1
    /\ inp[1].k = "paren"
    /\ Len(inp[1].g) = 3
    /\ IsIdentTok(inp[1].g[1])
    /\ inp[1].g[2] = Bang
    /\ inp[1].g[3].k = "paren"
    /\ IsExprList(inp[1].g[3].g)
    /\ RetAt(inp, 2)

\* (($fun:expr), $ret:expr)
MatchExpr(inp) ==
    /\ Len(inp) >= 1
    /\ inp[1].k = "paren"
    /\ IsExpr(inp[1].g)
    /\ RetAt(inp, 2)

\* ($fun:path, $ret:expr)
MatchPath(inp) ==
    \E p \in 1..Len(inp) : IsPath(Take(inp, p)) /\ RetAt(inp, p + 1)

PathEnd(inp) == CHOOSE p \in 1..Len(inp) : IsPath(Take(inp, p)) /\ RetAt(inp, p + 1)

\* (!, $fun:ident, $ret:expr)
MatchBang(inp) ==
    /\ Len(inp) >= 3
    /\ inp[1] = Bang
    /\ inp[2] = Comma
    /\ IsIdentTok(inp[3])
    /\ RetAt(inp, 4)

\* &$ret
TranscribeRef(inp) == Rewritten(1, "ref", <<>>, "", <<Drop(inp, 2)>>)

\* $ret as $typ
TranscribeCast(inp) == Rewritten(2, "cast", <<>>, inp[1].g[2].s, <<Drop(inp, 2)>>)

\* Faulty variant of the rule below: the accumulated value is appended
\* after the written arguments instead of being put before them.
TranscribeCallRetLast(inp) ==
    Rewritten(3, "call", Take(inp[1].g, Len(inp[1].g) - 1), "",
              ExprList(inp[1].g[Len(inp[1].g)].g) \o <<Drop(inp, 2)>>)

\* $funs_head $(:: $funs_tail)* ($ret $(,$arg)*)
TranscribeCall(inp) ==
    Rewritten(3, "call", Take(inp[1].g, Len(inp[1].g) - 1), "",
              <<Drop(inp, 2)>> \o ExprList(inp[1].g[Len(inp[1].g)].g))

\* Faulty variant of the rule below: the accumulated value is appended
\* after the macro's written arguments.
TranscribeMacroCallRetLast(inp) ==
    Rewritten(4, "macro", <<inp[1].g[1]>>, "",
              ExprList(inp[1].g[3].g) \o <<Drop(inp, 2)>>)

\* $fun!($ret $(,$arg)*)
TranscribeMacroCall(inp) ==
    Rewritten(4, "macro", <<inp[1].g[1]>>, "",
              <<Drop(inp, 2)>> \o ExprList(inp[1].g[3].g))

\* $fun($ret), $fun an expression
TranscribeExpr(inp) == Rewritten(5, "exprcall", inp[1].g, "", <<Drop(inp, 2)>>)

\* $fun($ret), $fun a path
TranscribePath(inp) ==
    Rewritten(6, "call", Take(inp, PathEnd(inp)), "", <<Drop(inp, PathEnd(inp) + 1)>>)

\* $fun!($ret)
TranscribeBang(inp) == Rewritten(7, "macro", <<inp[3]>>, "", <<Drop(inp, 4)>>)

\* The rules are tried in the order they are written; the first that
\* matches is transcribed.
internal_pike_fun(inp) ==
    IF MatchRef(inp) THEN TranscribeRef(inp)
    ELSE IF MatchCast(inp) THEN TranscribeCast(inp)
    ELSE IF MatchCall(inp) THEN TranscribeCall(inp)
    ELSE IF MatchMacroCall(inp) THEN TranscribeMacroCall(inp)
    ELSE IF MatchExpr(inp) THEN TranscribeExpr(inp)
    ELSE IF MatchPath(inp) THEN TranscribePath(inp)
    ELSE IF MatchBang(inp) THEN TranscribeBang(inp)
    ELSE NoRule

----------------------------------------------------------------------------
(* The matchers of pike!, pike_res! and pike_opt! over the token stream     *)
(*   $head:tt $(|> $funs_head:tt $(:: $funs_tail:tt)* $(! $($bang:tt)?)?)+ *)
(* (the two short-circuiting macros have no `!` part).                      *)

\* One parsed stage.  funs: $funs_head $(:: $funs_tail)*; bang: "none" (no
\* `!`), "bare" (`!` alone) or "tt" (`!` and the token tree bangtt).
ParsedStage(funs, bang, bangtt) == [funs |-> funs, bang |-> bang, bangtt |-> bangtt]

Rejected == [ok |-> FALSE, st |-> <<>>]

RECURSIVE TailLen(_)
\* Number of tokens $(:: $funs_tail:tt)* takes from the front of ts, or -1
\* when a `::` has no token tree after it.
TailLen(ts) ==
    IF Len(ts) >= 1 /\ ts[1] = ColonColon
    THEN IF Len(ts) >= 2
         THEN LET r == TailLen(Drop(ts, 2)) IN IF r < 0 THEN r ELSE 2 + r
         ELSE -1
    ELSE 0

RECURSIVE ParseStages(_, _)
\* The stages of the stream ts that follows the head.  After `!` the parser
\* can read the next token either as $bang:tt or as the `|` of the next
\* stage; when both are possible the invocation is ambiguous and rejected.
ParseStages(ts, allowBang) ==
    IF Len(ts) < 3 \/ ts[1] # Bar \/ ts[2] # Gt THEN Rejected
    ELSE
      LET tl == TailLen(Drop(ts, 3))
          funs == SubSeq(ts, 3, 3 + tl)
          rest == Drop(ts, 3 + tl)
          Cons(stage, more) ==
              IF more = <<>> THEN [ok |-> TRUE, st |-> <<stage>>]
              ELSE LET r == ParseStages(more, allowBang)
                   IN IF r.ok THEN [ok |-> TRUE, st |-> <<stage>> \o r.st]
                      ELSE Rejected
      IN IF tl < 0 THEN Rejected
         ELSE IF rest = <<>> \/ rest[1] = Bar
              THEN Cons(ParsedStage(funs, "none", <<>>), rest)
         ELSE IF rest[1] = Bang /\ allowBang
              THEN IF Len(rest) = 1
                   THEN Cons(ParsedStage(funs, "bare", <<>>), <<>>)
                   ELSE IF rest[2] = Bar THEN Rejected
                   ELSE Cons(ParsedStage(funs, "tt", <<rest[2]>>), Drop(rest, 2))
         ELSE Rejected

\* $($($bang)? !, )? $funs_head $(:: $funs_tail)*
BangPrefix(st) == IF st.bang = "none" THEN <<>> ELSE st.bangtt \o <<Bang, Comma>>

\* The expansion of a pipeline: ok, and one rewritten stage per `|>`.
Expansion(ok, st) == [ok |-> ok, st |-> st]

NoExpansion == Expansion(FALSE, <<>>)

AllRewritten(st) == \A p \in 1..Len(st) : st[p].rule # 0

\* Faulty variant of pike!: the stages are emitted last to first.
pikeReversed(src) ==
    LET ps == ParseStages(Drop(src, 1), TRUE)
        st == [p \in 1..Len(ps.st) |->
                  internal_pike_fun(BangPrefix(ps.st[Len(ps.st) + 1 - p])
                                    \o ps.st[Len(ps.st) + 1 - p].funs
                                    \o <<Comma, RetTok>>)]
    IN IF Len(src) >= 1 /\ IsExpr(<<src[1]>>) /\ ps.ok /\ AllRewritten(st)
       THEN Expansion(TRUE, st) ELSE NoExpansion

\* pike!: __internal_pike_fun!($($($bang)? !, )? <funs>, ret) per stage
pike(src) ==
    LET ps == ParseStages(Drop(src, 1), TRUE)
        st == [p \in 1..Len(ps.st) |->
                  internal_pike_fun(BangPrefix(ps.st[p]) \o ps.st[p].funs
                                    \o <<Comma, RetTok>>)]
    IN IF Len(src) >= 1 /\ IsExpr(<<src[1]>>) /\ ps.ok /\ AllRewritten(st)
       THEN Expansion(TRUE, st) ELSE NoExpansion

\* pike_res!: Ok(x) => __internal_pike_fun!(<funs>, x) per stage
pike_res(src) ==
    LET ps == ParseStages(Drop(src, 1), FALSE)
        st == [p \in 1..Len(ps.st) |->
                  internal_pike_fun(ps.st[p].funs \o <<Comma, XTok>>)]
    IN IF Len(src) >= 1 /\ IsExpr(<<src[1]>>) /\ ps.ok /\ AllRewritten(st)
       THEN Expansion(TRUE, st) ELSE NoExpansion

\* pike_opt!: None => __internal_pike_fun!(<funs>, $head) per stage
pike_opt(src) ==
    LET ps == ParseStages(Drop(src, 1), FALSE)
        st == [p \in 1..Len(ps.st) |->
                  internal_pike_fun(ps.st[p].funs \o <<Comma, src[1]>>)]
    IN IF Len(src) >= 1 /\ ps.ok /\ AllRewritten(st)
       THEN Expansion(TRUE, st) ELSE NoExpansion

Kinds == {"pike", "pike_res", "pike_opt"}

Expand(kind, src) ==
    IF kind = "pike" THEN pike(src)
    ELSE IF kind = "pike_res" THEN pike_res(src)
    ELSE pike_opt(src)

\* The expression the expansion passes to a stage as its accumulated value.
AccTok(kind, src) ==
    IF kind = "pike" THEN RetTok ELSE IF kind = "pike_res" THEN XTok ELSE src[1]

----------------------------------------------------------------------------
(* Values and the functions, closures and macros the pipelines call: those  *)
(* of the doc example and of the three test modules, each module with its   *)
(* own times2.                                                              *)

\* tag: "u32" | "u8" | "ref" | "string" | "unit" | "fn" | "Ok" | "Err" |
\* "Some" | "None" | "error"; v: the number carried; e: an Err's message.
Val(tag, v) == [tag |-> tag, v |-> v, e |-> ""]
U32(v) == Val("u32", v)
Unit == Val("unit", 0)
OkV(v) == Val("Ok", v)
ErrV(msg) == [tag |-> "Err", v |-> 0, e |-> msg]
SomeV(v) == Val("Some", v)
NoneV == Val("None", 0)
Stuck == Val("error", 0)

Over4 == "This number is larger than four"

\* The callee of a call, spelled out.
RECURSIVE Spell(_)
Spell(ts) == IF ts = <<>> THEN "" ELSE ts[1].s \o Spell(Drop(ts, 1))

AllU32(a) == \A p \in 1..Len(a) : a[p].tag = "u32"

\* The functions in scope of a pike! pipeline.
ApplyPike(f, a) ==
    IF f = "u32::to_string" /\ Len(a) = 1
    THEN (IF a[1].tag = "ref" THEN Val("string", a[1].v) ELSE Stuck)
    ELSE IF ~AllU32(a) THEN Stuck
    ELSE IF f = "times2" /\ Len(a) = 1 THEN U32(a[1].v * 2)
    ELSE IF f = "multiply" /\ Len(a) = 1 THEN U32(a[1].v * 2)
    ELSE IF f = "times" /\ Len(a) = 3 THEN U32(a[1].v * a[2].v * a[3].v)
    ELSE IF f = "u32::saturating_sub" /\ Len(a) = 2
         THEN U32(IF a[1].v > a[2].v THEN a[1].v - a[2].v ELSE 0)
    ELSE IF f = "adder" /\ Len(a) = 1 THEN Val("fn", a[1].v)
    ELSE Stuck

\* The functions in scope of a pike_res! pipeline.
ApplyRes(f, a) ==
    IF ~AllU32(a) THEN Stuck
    ELSE IF f = "times2" /\ Len(a) = 1 THEN OkV(a[1].v * 2)
    ELSE IF f = "fail_if_over_4" /\ Len(a) = 1
         THEN IF a[1].v > 4 THEN ErrV(Over4) ELSE OkV(a[1].v)
    ELSE IF f = "fail_if_over" /\ Len(a) = 2
         THEN IF a[1].v > a[2].v THEN ErrV("over the limit") ELSE OkV(a[1].v)
    ELSE Stuck

\* The functions in scope of a pike_opt! pipeline.
ApplyOpt(f, a) ==
    IF ~AllU32(a) THEN Stuck
    ELSE IF f = "times2" /\ Len(a) = 1 THEN SomeV(a[1].v * 2)
    ELSE IF f = "nope" /\ Len(a) = 1 THEN NoneV
    ELSE IF f = "some_if_over" /\ Len(a) = 2
         THEN IF a[1].v > a[2].v THEN SomeV(a[1].v) ELSE NoneV
    ELSE Stuck

Apply(kind, f, a) ==
    IF kind = "pike" THEN ApplyPike(f, a)
    ELSE IF kind = "pike_res" THEN ApplyRes(f, a)
    ELSE ApplyOpt(f, a)

\* The macros test_macro_a and test_macro_b: what they assign to the
\* caller's variable.
MacroAssign(f, a) ==
    IF ~AllU32(a) THEN Stuck
    ELSE IF f = "test_macro_a" /\ Len(a) = 1 THEN SomeV(a[1].v)
    ELSE IF f = "test_macro_b" /\ Len(a) = 2 THEN SomeV(a[1].v * a[2].v)
    ELSE Stuck

\* x as T
Cast(ty, x) ==
    IF x.tag \notin {"u32", "u8"} THEN Stuck
    ELSE IF ty = "u8" THEN Val("u8", x.v % 256)
    ELSE IF ty = "u32" THEN Val("u32", x.v)
    ELSE Stuck

\* The value of an argument expression: the accumulated value where the
\* expansion put it, the literal elsewhere.
EvalArg(ts, accTok, acc) ==
    IF ts = <<accTok>> THEN acc
    ELSE IF Len(ts) = 1 /\ ts[1].k = "lit" THEN U32(ts[1].n)
    ELSE Stuck

EvalArgs(args, accTok, acc) ==
    [p \in 1..Len(args) |-> EvalArg(args[p], accTok, acc)]

\* A closure |p| body or |p: T| body called with x.
CallClosure(ts, x) ==
    LET q == CHOOSE r \in 3..Len(ts) : ts[r] = Bar
        param == ts[2]
        body == Drop(ts, q)
        Operand(t) == IF t = param THEN x.v ELSE t.n
    IN IF Len(body) = 3 /\ body[2] = Star /\ x.tag = "u32"
       THEN U32(Operand(body[1]) * Operand(body[3]))
       ELSE IF body = <<Id("None")>> THEN NoneV
       ELSE Stuck

\* $fun($ret) where $fun is an expression: a closure, a name, or a call
\* that returns a closure.
CallExpr(kind, ts, x) ==
    IF ts[1] = Bar THEN CallClosure(ts, x)
    ELSE IF IsPath(ts) THEN Apply(kind, Spell(ts), <<x>>)
    ELSE IF ts[Len(ts)].k = "paren" /\ IsPath(Take(ts, Len(ts) - 1))
         THEN LET inner == ts[Len(ts)].g
                  list == IF inner # <<>> /\ inner[Len(inner)] = Comma
                          THEN Take(inner, Len(inner) - 1) ELSE inner
                  fn == Apply(kind, Spell(Take(ts, Len(ts) - 1)),
                              EvalArgs(ExprList(list), Id("-"), x))
              IN IF fn.tag = "fn" /\ x.tag = "u32" THEN U32(x.v + fn.v) ELSE Stuck
    ELSE Stuck

\* The arguments a rewritten stage passes, evaluated.
StageArgs(ast, accTok, acc) == EvalArgs(ast.args, accTok, acc)

\* The value of a rewritten stage, its arguments already evaluated.
StageValue(kind, ast, a) ==
    IF \E p \in 1..Len(a) : a[p].tag = "error" THEN Stuck
    ELSE IF ast.op = "ref" THEN (IF a[1].tag = "u32" THEN Val("ref", a[1].v) ELSE Stuck)
    ELSE IF ast.op = "cast" THEN Cast(ast.ty, a[1])
    ELSE IF ast.op = "call" THEN Apply(kind, Spell(ast.f), a)
    ELSE IF ast.op = "macro" THEN
         (IF kind = "pike" /\ MacroAssign(Spell(ast.f), a).tag # "error"
          THEN Unit ELSE Stuck)
    ELSE IF ast.op = "exprcall" THEN CallExpr(kind, ast.f, a[1])
    ELSE Stuck

----------------------------------------------------------------------------
(* The pipelines the model runs.                                            *)

\* A stage as written.  toks: its tokens; shape, fname, wargs: how it reads
\* ("pcall": (fname(wargs)), "pcallc": the same with a comma after the last
\* argument, "pmacro": (fname!(wargs)), "bmacro": fname!, "path": fname,
\* "closure", "ref": &, "cast": (as fname)).
Form(toks, shape, fname, wargs) ==
    [toks |-> toks, shape |-> shape, fname |-> fname, wargs |-> wargs]

Times2 == Form(<<Id("times2")>>, "path", "times2", <<>>)
TimesDouble == Form(<<Paren(<<Bar, Id("i"), Colon, Id("u32"), Bar, Id("i"), Star, Lit(2)>>)>>,
                    "closure", "", <<>>)
ConstNone == Form(<<Paren(<<Bar, Id("_i"), Bar, Id("None")>>)>>, "closure", "", <<>>)

PikeForms ==
    { Times2,
      Form(<<Id("multiply")>>, "path", "multiply", <<>>),
      Form(<<Id("u32"), ColonColon, Id("to_string")>>, "path", "u32::to_string", <<>>),
      Form(<<Amp>>, "ref", "", <<>>),
      Form(<<Paren(<<KwAs, Id("u8")>>)>>, "cast", "u8", <<>>),
      Form(<<Paren(<<KwAs, Id("u32")>>)>>, "cast", "u32", <<>>),
      TimesDouble,
      Form(<<Paren(<<Id("times2"), Paren(<<>>)>>)>>, "pcall", "times2", <<>>),
      Form(<<Paren(<<Id("times"), Paren(<<Lit(3), Comma, Lit(5)>>)>>)>>,
           "pcall", "times", <<3, 5>>),
      Form(<<Paren(<<Id("u32"), ColonColon, Id("saturating_sub"), Paren(<<Lit(3)>>)>>)>>,
           "pcall", "u32::saturating_sub", <<3>>),
      Form(<<Paren(<<Id("adder"), Paren(<<Lit(1), Comma>>)>>)>>, "pcallc", "adder", <<1>>),
      Form(<<Id("test_macro_a"), Bang>>, "bmacro", "test_macro_a", <<>>),
      Form(<<Paren(<<Id("test_macro_b"), Bang, Paren(<<Lit(10)>>)>>)>>,
           "pmacro", "test_macro_b", <<10>>) }

ResForms ==
    { Times2,
      Form(<<Id("fail_if_over_4")>>, "path", "fail_if_over_4", <<>>),
      Form(<<Paren(<<Id("times2"), Paren(<<>>)>>)>>, "pcall", "times2", <<>>),
      Form(<<Paren(<<Id("fail_if_over"), Paren(<<Lit(1)>>)>>)>>, "pcall", "fail_if_over", <<1>>),
      Form(<<Id("test_macro_a"), Bang>>, "bmacro", "test_macro_a", <<>>) }

OptForms ==
    { Times2,
      Form(<<Id("nope")>>, "path", "nope", <<>>),
      ConstNone,
      Form(<<Paren(<<Id("nope"), Paren(<<>>)>>)>>, "pcall", "nope", <<>>),
      Form(<<Paren(<<Id("some_if_over"), Paren(<<Lit(1)>>)>>)>>, "pcall", "some_if_over", <<1>>),
      Form(<<Id("test_macro_a"), Bang>>, "bmacro", "test_macro_a", <<>>) }

FormsOf(kind) ==
    IF kind = "pike" THEN PikeForms
    ELSE IF kind = "pike_res" THEN ResForms
    ELSE OptForms

\* A head that counts its evaluations:  { n += 1; n }
CountingHead == Brace(<<Id("n"), PlusEq, Lit(1), Semi, Id("n")>>)

Heads == {Lit(4), CountingHead}

\* Evaluating the head expression: its value and the counter afterwards.
EvalHead(head, n) ==
    IF head.k = "lit" THEN [val |-> U32(head.n), n |-> n]
    ELSE [val |-> U32(n + 1), n |-> n + 1]

RECURSIVE Stream(_)
\* |> stage |> stage ...
Stream(forms) ==
    IF forms = <<>> THEN <<>>
    ELSE <<Bar, Gt>> \o forms[1].toks \o Stream(Drop(forms, 1))

Source(head, forms) == <<head>> \o Stream(forms)

RECURSIVE PikeTyped(_, _, _)
\* A pike! expansion type-checks: every stage accepts what the stage before
\* it returns (the head is a u32).
PikeTyped(st, p, acc) ==
    IF p > Len(st) THEN TRUE
    ELSE LET v == StageValue("pike", st[p], StageArgs(st[p], RetTok, acc))
         IN v.tag # "error" /\ PikeTyped(st, p + 1, v)

\* The match arms of pike_res! and pike_opt! have one type: every stage
\* takes the u32 and returns the Result, or the Option.
WellTyped(kind, src, st) ==
    IF kind = "pike" THEN PikeTyped(st, 1, U32(1))
    ELSE \A p \in 1..Len(st) :
            StageValue(kind, st[p], StageArgs(st[p], AccTok(kind, src), U32(1))).tag
               \in (IF kind = "pike_res" THEN {"Ok", "Err"} ELSE {"Some", "None"})

----------------------------------------------------------------------------
(* The run of one pipeline: expansion, then the expanded block statement    *)
(* by statement.                                                            *)

VARIABLES
    kind,       \* which macro is invoked
    src,        \* the tokens it is invoked with
    stages,     \* the stages as written, for reference
    pc,         \* "expand", "head", "stage", "call", "done", "rejected"
    exp,        \* the rewritten stages
    i,          \* the stage the block is at
    ret,        \* the binding `ret`
    n,          \* the counter a counting head increments
    headEvals,  \* how many times the head expression has been evaluated
    out,        \* the variable the test macros assign
    pend,       \* the evaluated arguments of the call in progress
    log         \* every call made and every value returned, in order

vars == <<kind, src, stages, pc, exp, i, ret, n, headEvals, out, pend, log>>

Unset == Val("unset", 0)

\* One entry of the log.  ev: "call" or "ret"; idx: the stage; rule, op, f:
\* the rewritten stage; acc: the accumulated value the expansion handed to
\* the stage; args: the arguments passed; val: the value returned.
Event(ev, idx, ast, acc, args, val) ==
    [ev |-> ev, idx |-> idx, rule |-> ast.rule, op |-> ast.op,
     f |-> Spell(ast.f), acc |-> acc, args |-> args, val |-> val]

Pipelines(k) == UNION {[1..len -> FormsOf(k)] : len \in 1..MaxStages}

Compiles(k, s) ==
    LET e == Expand(k, s) IN e.ok => WellTyped(k, s, e.st)

Init ==
    /\ kind \in Kinds
    /\ stages \in Pipelines(kind)
    /\ \E head \in Heads : src = Source(head, stages)
    /\ Compiles(kind, src)
    /\ pc = "expand"
    /\ exp = <<>>
    /\ i = 0
    /\ ret = Unset
    /\ n = 0
    /\ headEvals = 0
    /\ out = Unset
    /\ pend = <<>>
    /\ log = <<>>

\* Macro expansion: the pipeline either expands or is rejected.
ExpandPipeline ==
    /\ pc = "expand"
    /\ LET e == Expand(kind, src)
       IN IF e.ok THEN exp' = e.st /\ pc' = "head"
          ELSE exp' = exp /\ pc' = "rejected"
    /\ UNCHANGED <<kind, src, stages, i, ret, n, headEvals, out, pend, log>>

\* pike!:  let ret = $head;
PikeHead ==
    /\ pc = "head" /\ kind = "pike"
    /\ LET h == EvalHead(src[1], n)
       IN ret' = h.val /\ n' = h.n
    /\ headEvals' = headEvals + 1
    /\ i' = 1
    /\ pc' = "stage"
    /\ UNCHANGED <<kind, src, stages, exp, out, pend, log>>

\* pike_res!:  let ret = Ok($head);
PikeResHead ==
    /\ pc = "head" /\ kind = "pike_res"
    /\ LET h == EvalHead(src[1], n)
       IN ret' = OkV(h.val.v) /\ n' = h.n
    /\ headEvals' = headEvals + 1
    /\ i' = 1
    /\ pc' = "stage"
    /\ UNCHANGED <<kind, src, stages, exp, out, pend, log>>

\* pike_opt!:  let ret = None;
PikeOptInit ==
    /\ pc = "head" /\ kind = "pike_opt"
    /\ ret' = NoneV
    /\ i' = 1
    /\ pc' = "stage"
    /\ UNCHANGED <<kind, src, stages, exp, n, headEvals, out, pend, log>>

\* The stage's arguments are evaluated and the call is made.
Invoke(accTok, acc) ==
    /\ pend' = StageArgs(exp[i], accTok, acc)
    /\ log' = Append(log, Event("call", i, exp[i], acc,
                                StageArgs(exp[i], accTok, acc), Unit))
    /\ pc' = "call"

\* Faulty variant of PikeCall: every stage is handed the head, not `ret`.
PikeCallHead ==
    /\ pc = "stage" /\ kind = "pike" /\ i <= Len(exp)
    /\ Invoke(RetTok, EvalHead(src[1], 0).val)
    /\ UNCHANGED <<kind, src, stages, exp, i, ret, n, headEvals, out>>

\* pike!:  let ret = __internal_pike_fun!(<stage>, ret);
PikeCall ==
    /\ pc = "stage" /\ kind = "pike" /\ i <= Len(exp)
    /\ Invoke(RetTok, ret)
    /\ UNCHANGED <<kind, src, stages, exp, i, ret, n, headEvals, out>>

\* Faulty variant of PikeResCall: the stage is called whatever `ret` is.
PikeResCallAlways ==
    /\ pc = "stage" /\ kind = "pike_res" /\ i <= Len(exp)
    /\ Invoke(XTok, U32(ret.v))
    /\ UNCHANGED <<kind, src, stages, exp, i, ret, n, headEvals, out>>

\* Faulty variant of PikeResCall: the stage is handed the head, not the
\* payload of `ret`.
PikeResCallHead ==
    /\ pc = "stage" /\ kind = "pike_res" /\ i <= Len(exp)
    /\ ret.tag = "Ok"
    /\ Invoke(XTok, EvalHead(src[1], 0).val)
    /\ UNCHANGED <<kind, src, stages, exp, i, ret, n, headEvals, out>>

\* pike_res!:  match ret { Ok(x) => __internal_pike_fun!(<stage>, x), ...
PikeResCall ==
    /\ pc = "stage" /\ kind = "pike_res" /\ i <= Len(exp)
    /\ ret.tag = "Ok"
    /\ Invoke(XTok, U32(ret.v))
    /\ UNCHANGED <<kind, src, stages, exp, i, ret, n, headEvals, out>>

\* pike_res!:  ... _ => ret }
PikeResSkip ==
    /\ pc = "stage" /\ kind = "pike_res" /\ i <= Len(exp)
    /\ ret.tag # "Ok"
    /\ i' = i + 1
    /\ UNCHANGED <<kind, src, stages, pc, exp, ret, n, headEvals, out, pend, log>>

\* Faulty variant of PikeOptCall: the stage is called whatever `ret` is.
PikeOptCallAlways ==
    /\ pc = "stage" /\ kind = "pike_opt" /\ i <= Len(exp)
    /\ LET h == EvalHead(src[1], n)
       IN /\ n' = h.n
          /\ Invoke(src[1], h.val)
    /\ headEvals' = headEvals + 1
    /\ UNCHANGED <<kind, src, stages, exp, i, ret, out>>

\* Faulty variant of PikeOptCall: the head is evaluated for the first stage
\* only and its value reused afterwards.
PikeOptCallOnce ==
    /\ pc = "stage" /\ kind = "pike_opt" /\ i <= Len(exp)
    /\ ret.tag = "None"
    /\ IF headEvals = 0
       THEN LET h == EvalHead(src[1], n)
            IN /\ n' = h.n
               /\ Invoke(src[1], h.val)
               /\ headEvals' = headEvals + 1
       ELSE /\ Invoke(src[1], IF src[1].k = "lit" THEN U32(src[1].n) ELSE U32(n))
            /\ UNCHANGED <<n, headEvals>>
    /\ UNCHANGED <<kind, src, stages, exp, i, ret, out>>

\* pike_opt!:  match ret { None => __internal_pike_fun!(<stage>, $head), ...
PikeOptCall ==
    /\ pc = "stage" /\ kind = "pike_opt" /\ i <= Len(exp)
    /\ ret.tag = "None"
    /\ LET h == EvalHead(src[1], n)
       IN /\ n' = h.n
          /\ Invoke(src[1], h.val)
    /\ headEvals' = headEvals + 1
    /\ UNCHANGED <<kind, src, stages, exp, i, ret, out>>

\* pike_opt!:  ... _ => ret }
PikeOptSkip ==
    /\ pc = "stage" /\ kind = "pike_opt" /\ i <= Len(exp)
    /\ ret.tag # "None"
    /\ i' = i + 1
    /\ UNCHANGED <<kind, src, stages, pc, exp, ret, n, headEvals, out, pend, log>>

\* The call returns and its value is bound to `ret`.
StageReturn ==
    /\ pc = "call"
    /\ LET v == StageValue(kind, exp[i], pend)
       IN /\ ret' = v
          /\ log' = Append(log, Event("ret", i, exp[i], log[Len(log)].acc, pend, v))
    /\ out' = IF exp[i].op = "macro" THEN MacroAssign(Spell(exp[i].f), pend) ELSE out
    /\ pend' = <<>>
    /\ i' = i + 1
    /\ pc' = "stage"
    /\ UNCHANGED <<kind, src, stages, exp, n, headEvals>>

\* The block's value is `ret`.
Finish ==
    /\ pc = "stage" /\ i > Len(exp)
    /\ pc' = "done"
    /\ UNCHANGED <<kind, src, stages, exp, i, ret, n, headEvals, out, pend, log>>

Next ==
    \/ ExpandPipeline
    \/ PikeHead
    \/ PikeResHead
    \/ PikeOptInit
    \/ PikeCall
    \/ PikeResCall
    \/ PikeResSkip
    \/ PikeOptCall
    \/ PikeOptSkip
    \/ StageReturn
    \/ Finish

Spec == Init /\ [][Next]_vars

\* Nothing the model runs gets stuck on a value of the wrong type.
TypeOK ==
    /\ ret.tag # "error"
    /\ \A p \in 1..Len(log) : log[p].val.tag # "error"

----------------------------------------------------------------------------
(* What the log says.                                                       *)

CallEvents == {p \in 1..Len(log) : log[p].ev = "call"}
RetEvents == {p \in 1..Len(log) : log[p].ev = "ret"}

\* Stage k has been invoked / has returned / the value it returned.
Invoked(k) == \E p \in CallEvents : log[p].idx = k
Returned(k) == \E p \in RetEvents : log[p].idx = k
RetValOf(k) == log[CHOOSE p \in RetEvents : log[p].idx = k].val

\* The value of the head expression, evaluated before anything else ran.
HeadFirst == EvalHead(src[1], 0).val

\* The written stage a log entry belongs to.
Written(p) == stages[log[p].idx]

\* The written arguments of a stage, as values.
WrittenArgs(form) == [q \in 1..Len(form.wargs) |-> U32(form.wargs[q])]

Done == pc = "done"

----------------------------------------------------------------------------
(* C1: in pike! stage 1 receives the head, stage i receives exactly the     *)
(* value stage i-1 returned, every stage runs, and the value of the         *)
(* pipeline is the value the last stage returned.                           *)
C1_PikeChainsStages ==
    kind = "pike" =>
      /\ \A p \in CallEvents :
            /\ log[p].args[1] = log[p].acc
            /\ IF log[p].idx = 1 THEN log[p].acc = HeadFirst
               ELSE /\ Returned(log[p].idx - 1)
                    /\ log[p].acc = RetValOf(log[p].idx - 1)
      /\ Done => /\ \A k \in 1..Len(stages) : Returned(k)
                 /\ ret = RetValOf(Len(stages))

\* A three-stage pike! pipeline has finished with a number its stages made.
C1_Witness ==
    /\ Done /\ kind = "pike" /\ Len(stages) >= 3
    /\ ret.tag = "u32" /\ ret.v > 8 * HeadFirst.v
    /\ RetValOf(1) # RetValOf(2)

(* C2: in pike_res!, once a stage has returned Err(e) no further stage is   *)
(* invoked and the result is that very Err(e).                              *)
C2_ResFirstErrIsResult ==
    kind = "pike_res" =>
      \A p \in RetEvents :
         log[p].val.tag = "Err" => (p = Len(log) /\ ret = log[p].val)

\* A pike_res! pipeline has finished on an Err with stages left unvisited.
C2_Witness ==
    /\ Done /\ kind = "pike_res"
    /\ \E p \in RetEvents :
          /\ log[p].val = ErrV(Over4)
          /\ log[p].idx > 1
          /\ log[p].idx < Len(stages)
    /\ ret = ErrV(Over4)

(* C3: in pike_res!, stage 1 receives the head and stage i the payload of   *)
(* the Ok stage i-1 returned; when every stage returns Ok every stage runs  *)
(* and the result is the last stage's Ok; an Err result is an Err some      *)
(* stage returned.                                                          *)
C3_ResChainsOk ==
    kind = "pike_res" =>
      /\ \A p \in CallEvents :
            /\ log[p].args[1] = log[p].acc
            /\ log[p].acc.tag = "u32"
            /\ IF log[p].idx = 1 THEN log[p].acc = HeadFirst
               ELSE /\ Returned(log[p].idx - 1)
                    /\ RetValOf(log[p].idx - 1) = OkV(log[p].acc.v)
      /\ Done =>
            /\ (\A p \in RetEvents : log[p].val.tag = "Ok") =>
                  /\ \A k \in 1..Len(stages) : Returned(k)
                  /\ ret = RetValOf(Len(stages))
                  /\ ret.tag = "Ok"
            /\ ret.tag = "Err" => \E p \in RetEvents : log[p].val = ret

\* A three-stage pike_res! pipeline has finished with every stage Ok.
C3_Witness ==
    /\ Done /\ kind = "pike_res" /\ Len(stages) >= 3
    /\ ret.tag = "Ok" /\ ret.v > HeadFirst.v
    /\ Cardinality(RetEvents) = Len(stages)
    /\ RetValOf(1) # RetValOf(2)

\* What a pike_opt! stage, read as a function, returns for v.
RefOpt(form, v) ==
    IF form.shape = "path" THEN ApplyOpt(form.fname, <<v>>)
    ELSE IF form.shape = "pcall" THEN ApplyOpt(form.fname, <<v>> \o WrittenArgs(form))
    ELSE NoneV

\* The stages that return Some for v.
SomeAt(v) == {k \in 1..Len(stages) : RefOpt(stages[k], v).tag = "Some"}

(* C4: pike_opt! hands every stage it invokes the original head value h,    *)
(* and returns si(h) for the smallest i with si(h) a Some, None when there  *)
(* is none.                                                                 *)
C4_OptTriesOriginalHead ==
    kind = "pike_opt" =>
      /\ \A p \in CallEvents : log[p].args[1] = HeadFirst
      /\ Done =>
            ret = IF SomeAt(HeadFirst) = {} THEN NoneV
                  ELSE RefOpt(stages[CHOOSE k \in SomeAt(HeadFirst) :
                                        \A j \in SomeAt(HeadFirst) : k <= j],
                              HeadFirst)

(* C5: in pike_opt!, once a stage has returned Some no later stage is       *)
(* invoked and that Some is the result; a stage is invoked exactly when     *)
(* every stage before it returned None.                                     *)
C5_OptStopsAtFirstSome ==
    kind = "pike_opt" =>
      /\ \A p \in RetEvents :
            log[p].val.tag = "Some" => (p = Len(log) /\ ret = log[p].val)
      /\ \A p \in CallEvents :
            \A k \in 1..(log[p].idx - 1) : Returned(k) /\ RetValOf(k) = NoneV
      /\ Done =>
            \A k \in 1..Len(stages) :
               (\A j \in 1..(k - 1) : Returned(j) /\ RetValOf(j) = NoneV)
                  => Invoked(k)

\* A pike_opt! pipeline has finished on the Some of a middle stage.
C5_Witness ==
    /\ Done /\ kind = "pike_opt"
    /\ ret.tag = "Some"
    /\ \E p \in RetEvents :
          /\ log[p].val = ret
          /\ log[p].idx > 1
          /\ log[p].idx < Len(stages)

C8_HeadEvaluations ==
    /\ (kind \in {"pike", "pike_res"} /\ pc \in {"stage", "call", "done"})
          => headEvals = 1
    /\ kind = "pike_opt" => headEvals = Cardinality(CallEvents)
    /\ (kind = "pike_opt" /\ Done) =>
          /\ ret.tag = "Some" =>
                \E p \in RetEvents : log[p].val = ret /\ headEvals = log[p].idx
          /\ ret.tag = "None" => headEvals = Len(stages)
    /\ src[1] = CountingHead => n = headEvals

\* A pike_opt! pipeline with a counting head has finished after three tries.
C8_Witness ==
    /\ Done /\ kind = "pike_opt" /\ src[1] = CountingHead
    /\ headEvals >= 3 /\ n = headEvals
    /\ ret.tag = "Some"

(* C9: stages are invoked in their written order, each after the one        *)
(* before it has returned and none twice; pike! invokes every stage once,   *)
(* pike_res! and pike_opt! at least the first.                              *)
C9_StagesInOrderOnce ==
    /\ \A p \in 1..Len(log) : log[p].ev = IF p % 2 = 1 THEN "call" ELSE "ret"
    /\ \A p \in RetEvents : log[p].idx = log[p - 1].idx
    /\ \A p \in CallEvents : \A q \in CallEvents :
          p < q => log[p].idx < log[q].idx
    /\ \A p \in CallEvents :
          Written(p).shape \in {"path", "pcall", "bmacro", "pmacro"} =>
             log[p].f = Written(p).fname
    /\ (Done /\ kind = "pike") =>
          \A k \in 1..Len(stages) : Cardinality({p \in CallEvents : log[p].idx = k}) = 1
    /\ Done => Invoked(1)

\* Three different stages have run one after the other.
C9_Witness ==
    /\ Done /\ Len(log) >= 6
    /\ log[1].f # log[3].f /\ log[3].f # log[5].f

\* The rule of __internal_pike_fun each written shape is meant for.
RuleOf(shape) ==
    IF shape = "ref" THEN 1
    ELSE IF shape = "cast" THEN 2
    ELSE IF shape \in {"pcall", "pcallc"} THEN 3
    ELSE IF shape = "pmacro" THEN 4
    ELSE IF shape = "closure" THEN 5
    ELSE IF shape = "path" THEN 6
    ELSE 7

(* C10: every stage is rewritten by the one rule its form is meant for, and *)
(* a parenthesized call (f(args)) is always rewritten as f(acc, args),      *)
(* never as (f(args))(acc).                                                 *)
C10_ParenCallAlwaysPartial ==
    \A p \in CallEvents :
       /\ log[p].rule = RuleOf(Written(p).shape)
       /\ Written(p).shape \in {"pcall", "pcallc"} =>
             /\ log[p].op = "call"
             /\ log[p].f = Written(p).fname
             /\ log[p].args = <<log[p].acc>> \o WrittenArgs(Written(p))

====
